---- MODULE Spec2Model ----
(***************************************************************************)
(* Model of terrain-generator-2d (src/src/main.rs).                        *)
(*                                                                         *)
(* Number representation.                                                  *)
(*   f32 values (gradient, height_map, biome_map, the thresholds of the    *)
(*   biome match) are fixed-point integers counting units of 1/Q; every    *)
(*   f32 multiplication and division rounds to the nearest unit, as the    *)
(*   float operation rounds to the nearest representable value.            *)
(*   f64 values (the accumulators of sum_octaves) are exact rationals      *)
(*   [n, d] in lowest terms with d > 0; d = 0 stands for a non-finite      *)
(*   result (NaN or an infinity), which every later operation propagates.  *)
(***************************************************************************)
EXTENDS Integers, Sequences, FiniteSets, TLC

\* ------------------------------------------------------------------ bounds
Half == 2
MaxSeed == 3
MaxIter == 3
Precision == 10
GridSteps == 20

\* ------------------------------------------------------- program constants
Octaves == 16

\* --------------------------------------------------------- f32 fixed point
Q == 100 * Precision

Abs(n) == IF n < 0 THEN -n ELSE n

\* nearest integer to n / d (d > 0), halves rounded up
Round(n, d) == (2 * n + d) \div (2 * d)

\* the f32 nearest to the decimal literal n / d
F(n, d) == Round(n * Q, d)

FMul(a, b) == Round(a * b, Q)

FDiv(a, b) == Round(a * Q, b)

\* ------------------------------------------------------------ f64 rationals
RECURSIVE Gcd(_, _)
Gcd(a, b) == IF b = 0 THEN a ELSE Gcd(b, a % b)

Rat(n, d) ==
    IF d = 0 THEN [n |-> 0, d |-> 0]
    ELSE LET g == Gcd(Abs(n), Abs(d))
             s == IF d < 0 THEN -1 ELSE 1
         IN  [n |-> s * (n \div g), d |-> s * (d \div g)]

RInt(k) == [n |-> k, d |-> 1]

NonFinite == [n |-> 0, d |-> 0]

IsFinite(r) == r.d # 0

RAdd(p, q) ==
    IF p.d = 0 \/ q.d = 0 THEN NonFinite
    ELSE LET g == Gcd(p.d, q.d)
         IN  Rat(p.n * (q.d \div g) + q.n * (p.d \div g), (p.d \div g) * q.d)

RSub(p, q) == RAdd(p, [n |-> -q.n, d |-> q.d])

RMul(p, q) ==
    IF p.d = 0 \/ q.d = 0 THEN NonFinite
    ELSE LET g1 == Gcd(Abs(p.n), q.d)
             g2 == Gcd(Abs(q.n), p.d)
             h1 == IF g1 = 0 THEN 1 ELSE g1
             h2 == IF g2 = 0 THEN 1 ELSE g2
         IN  Rat((p.n \div h1) * (q.n \div h2), (p.d \div h2) * (q.d \div h1))

\* IEEE division: x / 0 is an infinity or NaN, never a trap
RDiv(p, q) ==
    IF p.d = 0 \/ q.d = 0 \/ q.n = 0 THEN NonFinite
    ELSE RMul(p, Rat(q.d, q.n))

RLeq(p, q) == p.n * q.d <= q.n * p.d

\* `val as f32` followed by storage in a Vec<f32>
AsF32(r) == Round(r.n * Q, r.d)

\* ------------------------------------------------------------------- grid
IMAGE_SIZE == <<2 * Half, 2 * Half>>

Xs == 0 .. (IMAGE_SIZE[1] - 1)
Ys == 0 .. (IMAGE_SIZE[2] - 1)
NumCells == IMAGE_SIZE[1] * IMAGE_SIZE[2]

\* a Vec index is kept 0-based, as in the source
get_id_from_pos(x, y) == x + IMAGE_SIZE[1] * y

Min(a, b) == IF a < b THEN a ELSE b

\* -------------------------------------------------------- generate_gradient
\* generate_gradient with the lower arm of the clamp left out
gradient_cell_noclamp(x, y) ==
    LET a == IF x > (IMAGE_SIZE[1] \div 2) THEN IMAGE_SIZE[1] - x ELSE x
        b == IF y > (IMAGE_SIZE[2] \div 2) THEN IMAGE_SIZE[2] - y ELSE y
        smaller == Min(a, b) * Q
        v1 == FDiv(smaller, FDiv(IMAGE_SIZE[1] * Q, 2 * Q))
        v2 == Q - v1
        v3 == FMul(v2, v2)
        t  == v3 - F(1, 10)
    IN  IF t > Q THEN Q ELSE t

gradient_cell(x, y) ==
    LET a == IF x > (IMAGE_SIZE[1] \div 2) THEN IMAGE_SIZE[1] - x ELSE x
        b == IF y > (IMAGE_SIZE[2] \div 2) THEN IMAGE_SIZE[2] - y ELSE y
        smaller == Min(a, b) * Q
        v1 == FDiv(smaller, FDiv(IMAGE_SIZE[1] * Q, 2 * Q))
        v2 == Q - v1
        v3 == FMul(v2, v2)
        t  == v3 - F(1, 10)
    IN  IF t > Q THEN Q ELSE IF t < 0 THEN 0 ELSE t

generate_gradient ==
    [i \in 0 .. (NumCells - 1) |->
        gradient_cell(i % IMAGE_SIZE[1], i \div IMAGE_SIZE[1])]

\* ------------------------------------------------------------- sum_octaves
\* one pass of the loop body, given the value noise_fn returned
octave_body(st, sample, persistence) ==
    [noise   |-> RAdd(st.noise, RMul(sample, st.amp)),
     max_amp |-> RAdd(st.max_amp, st.amp),
     amp     |-> RMul(st.amp, persistence),
     freq    |-> RMul(st.freq, RInt(2))]

\* the result without the division by max_amp
octave_result_nodiv(st, low, high) ==
    RAdd(RDiv(RMul(st.noise, RSub(high, low)), RInt(2)),
         RDiv(RAdd(high, low), RInt(2)))

octave_result(st, low, high) ==
    RAdd(RDiv(RMul(RDiv(st.noise, st.max_amp), RSub(high, low)), RInt(2)),
         RDiv(RAdd(high, low), RInt(2)))

\* OpenSimplexNoise::eval_2d of the generator built from `seed`: an external
\* library, deterministic per seed, with values in [-1, 1].  The stand-in
\* takes its value from the seed and the coordinates.
eval_2d(seed, fx, fy) ==
    Rat(((seed * 3 + fx.n + 2 * fy.n + fx.d + fy.d) % 5) - 2, 2)

\* a noise_fn argument is either the closure over a seeded generator
\* (generate_noise_map) or an arbitrary function given by its table of values
SeededNoise(seed) == [kind |-> "seeded", seed |-> seed]

TableNoise(table) == [kind |-> "table", table |-> table]

call_noise_fn(noise_fn, fx, fy) ==
    IF noise_fn.kind = "seeded"
    THEN eval_2d(noise_fn.seed, fx, fy)
    ELSE noise_fn.table[<<fx, fy>>]

sum_octaves(num_iterations, point, persistence, scale, low, high, noise_fn) ==
    LET st[i \in 0 .. num_iterations] ==
            IF i = 0
            THEN [noise |-> RInt(0), max_amp |-> RInt(0), amp |-> RInt(1), freq |-> scale]
            ELSE LET prev == st[i - 1]
                 IN  octave_body(prev,
                                 call_noise_fn(noise_fn,
                                               RMul(RInt(point[1]), prev.freq),
                                               RMul(RInt(point[2]), prev.freq)),
                                 persistence)
    IN  octave_result(st[num_iterations], low, high)

\* the arguments sum_octaves hands to noise_fn, octave by octave
octave_args(num_iterations, point, scale) ==
    LET f[i \in 0 .. num_iterations] ==
            IF i = 0 THEN scale ELSE RMul(f[i - 1], RInt(2))
    IN  {<<RMul(RInt(point[1]), f[i]), RMul(RInt(point[2]), f[i])>> :
            i \in 0 .. (num_iterations - 1)}

\* ------------------------------------------------------ generate_noise_map
generate_noise_map(seed, scale) ==
    [i \in 0 .. (NumCells - 1) |->
        AsF32(sum_octaves(Octaves,
                          <<i % IMAGE_SIZE[1], i \div IMAGE_SIZE[1]>>,
                          Rat(1, 2), scale, RInt(0), RInt(1),
                          SeededNoise(seed)))]

\* ----------------------------------------------------------- generate_maps
\* the elevation clamped on both sides
compose_height_clamped(h, g) ==
    LET v == FMul(h, F(11, 10)) - FMul(g, F(8, 10))
    IN  IF v < 0 THEN 0 ELSE IF v > Q THEN Q ELSE v

compose_height(h, g) ==
    LET v == FMul(h, F(11, 10)) - FMul(g, F(8, 10))
    IN  IF v < 0 THEN 0 ELSE v

compose_moisture(m, g) ==
    LET v == m - FMul(F(1, 10) - g, F(4, 10))
    IN  IF v < 0 THEN 0 ELSE v

HEIGHT_SCALE == Rat(4, 1000)
BIOME_SCALE == Rat(7, 1000)

generate_maps(grad, height_seed_, biome_seed_) ==
    LET hn == generate_noise_map(height_seed_, HEIGHT_SCALE)
        bn == generate_noise_map(biome_seed_, BIOME_SCALE)
    IN  <<[i \in 0 .. (NumCells - 1) |-> compose_height(hn[i], grad[i])],
          [i \in 0 .. (NumCells - 1) |-> compose_moisture(bn[i], grad[i])]>>

\* ------------------------------------------------------------------ biomes
Biomes == {"Grass", "DeepWater", "Water", "Dirt", "Sand", "WetSand", "DarkForest",
           "HighDarkForest", "LightForest", "Mountain", "HighMountain", "Snow"}

get_biome_color(biome) ==
    CASE biome = "Grass"          -> <<120, 157, 80>>
      [] biome = "Water"          -> <<9, 82, 198>>
      [] biome = "DeepWater"      -> <<0, 62, 178>>
      [] biome = "Dirt"           -> <<114, 98, 49>>
      [] biome = "Sand"           -> <<194, 178, 128>>
      [] biome = "WetSand"        -> <<164, 148, 99>>
      [] biome = "DarkForest"     -> <<60, 97, 20>>
      [] biome = "HighDarkForest" -> <<40, 77, 0>>
      [] biome = "LightForest"    -> <<85, 122, 45>>
      [] biome = "Mountain"       -> <<140, 142, 123>>
      [] biome = "HighMountain"   -> <<160, 162, 143>>
      [] biome = "Snow"           -> <<235, 235, 235>>

color_to_array(color) == <<color[1], color[2], color[3]>>

\* the match with the DarkForest arm placed before the HighDarkForest arm
match_arm_swapped(a, b) ==
    IF a < F(39, 100) THEN 1
    ELSE IF a < F(42, 100) THEN 2
    ELSE IF a < F(46, 100) /\ b < F(57, 100) THEN 3
    ELSE IF a < F(47, 100) /\ b < F(6, 10) THEN 4
    ELSE IF a < F(47, 100) /\ b >= F(6, 10) THEN 5
    ELSE IF a > F(54, 100) /\ b < F(43, 100) /\ a < F(62, 100) THEN 6
    ELSE IF a < F(62, 100) /\ b >= F(49, 100) THEN 8
    ELSE IF a < F(62, 100) /\ b >= F(58, 100) THEN 7
    ELSE IF a >= F(79, 100) THEN 9
    ELSE IF a >= F(74, 100) THEN 10
    ELSE IF a >= F(68, 100) /\ b >= F(10, 100) THEN 11
    ELSE 12

\* the match with the DarkForest arm's moisture threshold 0.59 for 0.49
match_arm_threshold(a, b) ==
    IF a < F(39, 100) THEN 1
    ELSE IF a < F(42, 100) THEN 2
    ELSE IF a < F(46, 100) /\ b < F(57, 100) THEN 3
    ELSE IF a < F(47, 100) /\ b < F(6, 10) THEN 4
    ELSE IF a < F(47, 100) /\ b >= F(6, 10) THEN 5
    ELSE IF a > F(54, 100) /\ b < F(43, 100) /\ a < F(62, 100) THEN 6
    ELSE IF a < F(62, 100) /\ b >= F(58, 100) THEN 7
    ELSE IF a < F(62, 100) /\ b >= F(59, 100) THEN 8
    ELSE IF a >= F(79, 100) THEN 9
    ELSE IF a >= F(74, 100) THEN 10
    ELSE IF a >= F(68, 100) /\ b >= F(10, 100) THEN 11
    ELSE 12

\* the match with the Grass arm's moisture comparison reversed
match_arm_grass(a, b) ==
    IF a < F(39, 100) THEN 1
    ELSE IF a < F(42, 100) THEN 2
    ELSE IF a < F(46, 100) /\ b < F(57, 100) THEN 3
    ELSE IF a < F(47, 100) /\ b < F(6, 10) THEN 4
    ELSE IF a < F(47, 100) /\ b >= F(6, 10) THEN 5
    ELSE IF a > F(54, 100) /\ b > F(43, 100) /\ a < F(62, 100) THEN 6
    ELSE IF a < F(62, 100) /\ b >= F(58, 100) THEN 7
    ELSE IF a < F(62, 100) /\ b >= F(49, 100) THEN 8
    ELSE IF a >= F(79, 100) THEN 9
    ELSE IF a >= F(74, 100) THEN 10
    ELSE IF a >= F(68, 100) /\ b >= F(10, 100) THEN 11
    ELSE 12

\* the arm of the match expression that is taken (1 .. 12)
match_arm(a, b) ==
    IF a < F(39, 100) THEN 1
    ELSE IF a < F(42, 100) THEN 2
    ELSE IF a < F(46, 100) /\ b < F(57, 100) THEN 3
    ELSE IF a < F(47, 100) /\ b < F(6, 10) THEN 4
    ELSE IF a < F(47, 100) /\ b >= F(6, 10) THEN 5
    ELSE IF a > F(54, 100) /\ b < F(43, 100) /\ a < F(62, 100) THEN 6
    ELSE IF a < F(62, 100) /\ b >= F(58, 100) THEN 7
    ELSE IF a < F(62, 100) /\ b >= F(49, 100) THEN 8
    ELSE IF a >= F(79, 100) THEN 9
    ELSE IF a >= F(74, 100) THEN 10
    ELSE IF a >= F(68, 100) /\ b >= F(10, 100) THEN 11
    ELSE 12

arm_biome ==
    <<"DeepWater", "Water", "Sand", "WetSand", "Dirt", "Grass", "HighDarkForest",
      "DarkForest", "Snow", "HighMountain", "Mountain", "LightForest">>

classify(a, b) == arm_biome[match_arm(a, b)]

pixel_of(height, moisture) == color_to_array(get_biome_color(classify(height, moisture)))

\* the y loop stopping one row short
render_image_short(img, hmap, bmap) ==
    [p \in DOMAIN img |->
        IF p[1] \in 0 .. (IMAGE_SIZE[1] - 1) /\ p[2] \in 0 .. (IMAGE_SIZE[2] - 2)
        THEN pixel_of(hmap[get_id_from_pos(p[1], p[2])],
                      bmap[get_id_from_pos(p[1], p[2])])
        ELSE img[p]]

\* the x / y loops of the GenerateImage arm
render_image(img, hmap, bmap) ==
    [p \in DOMAIN img |->
        IF p[1] \in 0 .. (IMAGE_SIZE[1] - 1) /\ p[2] \in 0 .. (IMAGE_SIZE[2] - 1)
        THEN pixel_of(hmap[get_id_from_pos(p[1], p[2])],
                      bmap[get_id_from_pos(p[1], p[2])])
        ELSE img[p]]

\* ------------------------------------------------------------------- state
VARIABLES
    pc,           \* position in main: "start", "running" ('running loop), "view"
                  \* ('view loop), "exited" (left 'running), "aborted" (panic)
    app_state,    \* AppState
    gradient,     \* Vec<f32> returned by generate_gradient
    height_map,   \* Vec<f32>
    biome_map,    \* Vec<f32>
    image,        \* ImageBuffer<Rgb<u8>>
    height_seed,  \* seed of the last height-noise generate_noise_map call
    biome_seed,   \* seed of the last moisture-noise generate_noise_map call
    event,        \* the event last taken from event_pump.poll_iter()
    oc,           \* one call of sum_octaves: its arguments and its result
    cl,           \* one pass of the GenerateImage loop body on one cell
    cm            \* one pass of the generate_maps loop body on one cell

vars == <<pc, app_state, gradient, height_map, biome_map, image,
          height_seed, biome_seed, event, oc, cl, cm>>

app_vars == <<pc, app_state, gradient, height_map, biome_map, image,
              height_seed, biome_seed, event>>

\* rng.gen_range(0, std::i64::MAX)
Seeds == 0 .. (MaxSeed - 1)

Events == {"Quit", "Escape", "Space", "Other"}

NoSeed == 0 - 1

Idle == [done |-> FALSE]

\* ---------------------------------------------------------------- main
AppInit ==
    /\ pc = "start"
    /\ app_state = "Load"
    /\ gradient = [i \in 0 .. (NumCells - 1) |-> Q]
    /\ height_map = << >>
    /\ biome_map = << >>
    /\ image = [p \in Xs \X Ys |-> <<0, 0, 0>>]
    /\ height_seed = NoSeed
    /\ biome_seed = NoSeed
    /\ event = "none"

AppIdle ==
    /\ pc = "off"
    /\ app_state = "Load"
    /\ gradient = << >>
    /\ height_map = << >>
    /\ biome_map = << >>
    /\ image = << >>
    /\ height_seed = NoSeed
    /\ biome_seed = NoSeed
    /\ event = "none"

Init == AppInit /\ oc = Idle /\ cl = Idle /\ cm = Idle

\* let gradient = generate_gradient().await
GenerateGradient ==
    /\ pc = "start"
    /\ gradient' = generate_gradient
    /\ pc' = "running"
    /\ UNCHANGED <<app_state, height_map, biome_map, image, height_seed, biome_seed,
                   event, oc, cl, cm>>

\* AppState::Load
Load ==
    /\ pc = "running"
    /\ app_state = "Load"
    /\ \E s1 \in Seeds, s2 \in Seeds :
          LET maps == generate_maps(gradient, s1, s2)
          IN  /\ height_seed' = s1
              /\ biome_seed' = s2
              /\ height_map' = maps[1]
              /\ biome_map' = maps[2]
    /\ app_state' = "GenerateImage"
    /\ UNCHANGED <<pc, gradient, image, event, oc, cl, cm>>

\* AppState::GenerateImage, image.save succeeds
GenerateImage ==
    /\ pc = "running"
    /\ app_state = "GenerateImage"
    /\ image' = render_image(image, height_map, biome_map)
    /\ app_state' = "View"
    /\ UNCHANGED <<pc, gradient, height_map, biome_map, height_seed, biome_seed,
                   event, oc, cl, cm>>

\* AppState::GenerateImage, image.save("output.png").unwrap() panics
GenerateImageSaveFails ==
    /\ pc = "running"
    /\ app_state = "GenerateImage"
    /\ image' = render_image(image, height_map, biome_map)
    /\ pc' = "aborted"
    /\ UNCHANGED <<app_state, gradient, height_map, biome_map, height_seed, biome_seed,
                   event, oc, cl, cm>>

\* AppState::View up to the 'view loop: window, canvas, texture, event pump
ViewOpen ==
    /\ pc = "running"
    /\ app_state = "View"
    /\ pc' = "view"
    /\ UNCHANGED <<app_state, gradient, height_map, biome_map, image, height_seed,
                   biome_seed, event, oc, cl, cm>>

\* one of the unwrap() / ? of the window set-up fails
ViewOpenFails ==
    /\ pc = "running"
    /\ app_state = "View"
    /\ pc' = "aborted"
    /\ UNCHANGED <<app_state, gradient, height_map, biome_map, image, height_seed,
                   biome_seed, event, oc, cl, cm>>

\* the Space arm leaving the 'view loop without setting app_state
ViewEvent_noreload ==
    /\ pc = "view"
    /\ \E e \in Events :
          /\ event' = e
          /\ CASE e \in {"Quit", "Escape"} -> pc' = "exited" /\ app_state' = app_state
               [] e = "Space"              -> pc' = "running" /\ app_state' = app_state
               [] OTHER                    -> pc' = pc /\ app_state' = app_state
    /\ UNCHANGED <<gradient, height_map, biome_map, image, height_seed, biome_seed,
                   oc, cl, cm>>

\* one event of event_pump.poll_iter() in the 'view loop
ViewEvent ==
    /\ pc = "view"
    /\ \E e \in Events :
          /\ event' = e
          /\ CASE e \in {"Quit", "Escape"} -> pc' = "exited" /\ app_state' = app_state
               [] e = "Space"              -> pc' = "running" /\ app_state' = "Load"
               [] OTHER                    -> pc' = pc /\ app_state' = app_state
    /\ UNCHANGED <<gradient, height_map, biome_map, image, height_seed, biome_seed,
                   oc, cl, cm>>

Next ==
    \/ GenerateGradient
    \/ Load
    \/ GenerateImage
    \/ GenerateImageSaveFails
    \/ ViewOpen
    \/ ViewOpenFails
    \/ ViewEvent

Spec == Init /\ [][Next]_vars

\* ------------------------------------------------- sum_octaves, call by call
Iterations == 0 .. MaxIter
Points == {<<0, 0>>, <<1, 2>>}
Persistences == {Rat(-1, 1), Rat(-1, 2), Rat(0, 1), Rat(1, 2), Rat(1, 1), Rat(2, 1)}
Scales == {HEIGHT_SCALE, BIOME_SCALE}
Ranges == {RInt(k) : k \in -1 .. 2}
NoiseVals == {RInt(-1), RInt(0), RInt(1)}

OctInit ==
    /\ AppIdle /\ cl = Idle /\ cm = Idle
    /\ \E n \in Iterations, pt \in Points, p \in Persistences, sc \in Scales,
          lo \in Ranges, hi \in Ranges :
          \E f \in [octave_args(n, pt, sc) -> NoiseVals] :
             oc = [done |-> FALSE, num_iterations |-> n, point |-> pt,
                   persistence |-> p, scale |-> sc, low |-> lo, high |-> hi,
                   noise_fn |-> f, result |-> RInt(0)]

CallSumOctaves ==
    /\ ~oc.done
    /\ oc' = [oc EXCEPT
                !.done = TRUE,
                !.result = sum_octaves(oc.num_iterations, oc.point, oc.persistence,
                                       oc.scale, oc.low, oc.high,
                                       TableNoise(oc.noise_fn))]
    /\ UNCHANGED <<app_vars, cl, cm>>

OctNext == CallSumOctaves

SpecOctaves == OctInit /\ [][OctNext]_vars

\* ------------------------------------- the GenerateImage loop body, per cell
\* every hundredth from 0 to 1.2, and its two neighbours on the f32 grid
NearHundredths(top) ==
    {v \in {F(k, 100) + d : k \in 0 .. top, d \in {-1, 0, 1}} : v >= 0}

ClInit ==
    /\ AppIdle /\ oc = Idle /\ cm = Idle
    /\ \E a \in NearHundredths(120), b \in NearHundredths(110) :
          cl = [done |-> FALSE, height |-> a, moisture |-> b, arm |-> 0,
                biome |-> "none", pixel |-> <<0, 0, 0>>]

ClassifyPixel ==
    /\ ~cl.done
    /\ cl' = [cl EXCEPT
                !.done = TRUE,
                !.arm = match_arm(cl.height, cl.moisture),
                !.biome = classify(cl.height, cl.moisture),
                !.pixel = pixel_of(cl.height, cl.moisture)]
    /\ UNCHANGED <<app_vars, oc, cm>>

ClNext == ClassifyPixel

SpecClassify == ClInit /\ [][ClNext]_vars

\* ------------------------------------- the generate_maps loop body, per cell
UnitGrid == {Round(k * Q, GridSteps) : k \in 0 .. GridSteps}

CmInit ==
    /\ AppIdle /\ oc = Idle /\ cl = Idle
    /\ \E g \in UnitGrid, h \in UnitGrid, m \in UnitGrid :
          cm = [done |-> FALSE, gradient |-> g, height_noise |-> h, biome_noise |-> m,
                height |-> h, biome |-> m]

ComposeCell ==
    /\ ~cm.done
    /\ cm' = [cm EXCEPT
                !.done = TRUE,
                !.height = compose_height(cm.height, cm.gradient),
                !.biome = compose_moisture(cm.biome, cm.gradient)]
    /\ UNCHANGED <<app_vars, oc, cl>>

CmNext == ComposeCell

SpecCompose == CmInit /\ [][CmNext]_vars

\* ======================================================================
\* Properties
\* ======================================================================

\* ---- the twelve ordered rules of the classifier contract
RuleGuard(k, e, m) ==
    CASE k = 1  -> e < F(39, 100)
      [] k = 2  -> e < F(42, 100)
      [] k = 3  -> e < F(46, 100) /\ m < F(57, 100)
      [] k = 4  -> e < F(47, 100) /\ m < F(60, 100)
      [] k = 5  -> e < F(47, 100) /\ m >= F(60, 100)
      [] k = 6  -> F(54, 100) < e /\ e < F(62, 100) /\ m < F(43, 100)
      [] k = 7  -> e < F(62, 100) /\ m >= F(58, 100)
      [] k = 8  -> e < F(62, 100) /\ m >= F(49, 100)
      [] k = 9  -> e >= F(79, 100)
      [] k = 10 -> e >= F(74, 100)
      [] k = 11 -> e >= F(68, 100) /\ m >= F(10, 100)
      [] k = 12 -> TRUE

RuleBiome ==
    <<"DeepWater", "Water", "Sand", "WetSand", "Dirt", "Grass", "HighDarkForest",
      "DarkForest", "Snow", "HighMountain", "Mountain", "LightForest">>

MatchingRules(e, m) == {k \in 1 .. 12 : RuleGuard(k, e, m)}

LowestRule(e, m) ==
    CHOOSE k \in MatchingRules(e, m) : \A j \in MatchingRules(e, m) : k <= j

\* C1: for every (elevation, moisture) pair the match expression yields exactly
\* one biome, and it is the biome of the lowest-numbered of the twelve ordered
\* rules whose guard holds.
C1_FirstMatchWins ==
    cl.done =>
        /\ cl.biome \in Biomes
        /\ MatchingRules(cl.height, cl.moisture) # {}
        /\ cl.biome = RuleBiome[LowestRule(cl.height, cl.moisture)]

\* a classified pair on which several rules' guards hold and a later one wins
\* only because the earlier ones fail
C1_Witness ==
    /\ cl.done
    /\ cl.biome = "HighDarkForest"
    /\ Cardinality(MatchingRules(cl.height, cl.moisture)) >= 3

\* C2 as stated: elevation 0.50, moisture 0.50 is classified Sand by rule 3.
C2_Original ==
    (cl.done /\ cl.height = F(50, 100) /\ cl.moisture = F(50, 100)) =>
        (cl.biome = "Sand" /\ cl.arm = 3)

\* C2 amended: elevation 0.50, moisture 0.50 fails the guard of rule 3
\* (0.50 is not below 0.46) and is classified DarkForest by rule 8.
C2_DarkForest ==
    (cl.done /\ cl.height = F(50, 100) /\ cl.moisture = F(50, 100)) =>
        /\ ~RuleGuard(3, cl.height, cl.moisture)
        /\ cl.biome = "DarkForest"
        /\ cl.arm = 8

C2_Witness ==
    cl.done /\ cl.height = F(50, 100) /\ cl.moisture = F(50, 100)

\* C3 as stated: elevation 0.60, moisture 0.05 satisfies no guarded rule, is
\* classified LightForest and drawn as [85,122,45].
C3_Original ==
    (cl.done /\ cl.height = F(60, 100) /\ cl.moisture = F(5, 100)) =>
        /\ \A k \in 1 .. 11 : ~RuleGuard(k, cl.height, cl.moisture)
        /\ cl.biome = "LightForest"
        /\ cl.pixel = <<85, 122, 45>>

\* C3 amended: elevation 0.60, moisture 0.05 satisfies the guard of rule 6, is
\* classified Grass and drawn as [120,157,80].
C3_Grass ==
    (cl.done /\ cl.height = F(60, 100) /\ cl.moisture = F(5, 100)) =>
        /\ cl.arm = 6
        /\ cl.biome = "Grass"
        /\ cl.pixel = <<120, 157, 80>>

C3_Witness ==
    cl.done /\ cl.height = F(60, 100) /\ cl.moisture = F(5, 100)

GradientDone == pc \notin {"start", "off"}

\* C4: the gradient mask is symmetric under horizontal and vertical mirroring:
\* mask(x,y) = mask(W-1-x, y) = mask(x, H-1-y) for every cell.
C4_MirrorSymmetric ==
    GradientDone =>
        \A x \in Xs, y \in Ys :
            /\ gradient[x + IMAGE_SIZE[1] * y]
                 = gradient[(IMAGE_SIZE[1] - 1 - x) + IMAGE_SIZE[1] * y]
            /\ gradient[x + IMAGE_SIZE[1] * y]
                 = gradient[x + IMAGE_SIZE[1] * (IMAGE_SIZE[2] - 1 - y)]

\* C5: every value of the gradient lies in [0,1], the value at the grid center
\* is exactly 0, and every cell of the x=0 or y=0 edge holds the largest value
\* of the field, 0.9.
C5_GradientRange ==
    GradientDone =>
        /\ \A i \in DOMAIN gradient : 0 <= gradient[i] /\ gradient[i] <= Q
        /\ gradient[(IMAGE_SIZE[1] \div 2) + IMAGE_SIZE[1] * (IMAGE_SIZE[2] \div 2)] = 0
        /\ \A x \in Xs, y \in Ys :
              (x = 0 \/ y = 0) => gradient[x + IMAGE_SIZE[1] * y] = F(9, 10)
        /\ \A i \in DOMAIN gradient : gradient[i] <= F(9, 10)

C5_Witness ==
    /\ GradientDone
    /\ DOMAIN gradient = 0 .. (NumCells - 1)
    /\ \E i \in DOMAIN gradient : 0 < gradient[i] /\ gradient[i] < F(9, 10)

OctInRange ==
    /\ IsFinite(oc.result)
    /\ RLeq(oc.low, oc.result)
    /\ RLeq(oc.result, oc.high)

Max0(v) == IF v > 0 THEN v ELSE 0

\* C7: after the compositor, elevation = max(0, h*1.1 - g*0.8) and
\* moisture = max(0, m - (0.1 - g)*0.4) for gradient g and raw noises h, m in
\* [0,1]; neither is negative and neither is clamped from above.
C7_Compositor ==
    cm.done =>
        /\ cm.height = Max0(FMul(cm.height_noise, F(11, 10)) - FMul(cm.gradient, F(8, 10)))
        /\ cm.biome = Max0(cm.biome_noise - FMul(F(1, 10) - cm.gradient, F(4, 10)))
        /\ cm.height >= 0
        /\ cm.biome >= 0

\* an elevation above 1 is a result
C7_Witness == cm.done /\ cm.height > Q /\ cm.gradient > 0

MapsLoaded == height_seed # NoSeed

\* C8: in every map generation the seed of the height noise differs from the
\* seed of the moisture noise.
C8_SeedsDiffer == MapsLoaded => height_seed # biome_seed

\* C9: in the View state every pixel (x,y) is the table color of the biome
\* classified from the values at index x + W*y of the maps of the most recent
\* Load; no pixel keeps its default or an earlier value.
C9_ImageMatchesMaps ==
    app_state = "View" =>
        /\ DOMAIN image = Xs \X Ys
        /\ <<height_map, biome_map>> = generate_maps(gradient, height_seed, biome_seed)
        /\ \A x \in Xs, y \in Ys :
              image[<<x, y>>] =
                get_biome_color(RuleBiome[LowestRule(height_map[x + IMAGE_SIZE[1] * y],
                                                     biome_map[x + IMAGE_SIZE[1] * y])])

\* the view of a regenerated map: Space was the last event handled, and the
\* picture is not of one color
C9_Witness ==
    /\ app_state = "View"
    /\ pc = "view"
    /\ event = "Space"
    /\ \E p \in DOMAIN image, q \in DOMAIN image : image[p] # image[q]

\* C10: the loop only moves Load -> GenerateImage -> View; Space in View leads
\* back to Load, which draws seeds and is followed by GenerateImage and View;
\* Quit or Escape in View leaves the loop, after which nothing more happens;
\* View is entered only from GenerateImage.
C10_LoopOrder ==
    [][ /\ pc # "exited"
        /\ (app_state' # app_state =>
              <<app_state, app_state'>> \in
                 {<<"Load", "GenerateImage">>, <<"GenerateImage", "View">>,
                  <<"View", "Load">>})
        /\ (app_state' = "Load" /\ app_state # "Load" =>
              pc = "view" /\ event' = "Space" /\ pc' = "running")
        /\ (pc = "view" /\ event' = "Space" => app_state' = "Load" /\ pc' = "running")
        /\ (pc = "view" /\ event' \in {"Quit", "Escape"} => pc' = "exited")
        /\ (pc' = "exited" => pc = "view" /\ event' \in {"Quit", "Escape"})
        /\ (app_state = "Load" /\ app_state' # "Load" =>
              /\ height_seed' \in Seeds /\ biome_seed' \in Seeds
              /\ <<height_map', biome_map'>>
                    = generate_maps(gradient, height_seed', biome_seed'))
        /\ (pc' = "view" /\ pc # "view" => app_state = "View")
      ]_vars

\* the program has ended on a quit action after at least one full cycle
C10_Witness == pc = "exited" /\ app_state = "View" /\ event \in {"Quit", "Escape"}

====
